---- MODULE Spec2Model ----
(***************************************************************************)
(* Jupyter Slide Navigator (src/src/extension.ts): the slide index, the    *)
(* navigation commands, the slide-view spacer lifecycle and its            *)
(* coordination with the save lifecycle of one notebook document.          *)
(*                                                                         *)
(* A cell is a record: its content, the four metadata shapes that          *)
(* getSlideType reads (inner = metadata.slideshow.slide_type, custom =     *)
(* custom.metadata.slideshow.slide_type, direct = slideshow.slide_type,    *)
(* flat = slide_type) and the jupyterSlideNav.spacer marker.  A shape that *)
(* holds no string is Absent.  Cell positions are 0-based as in the code;  *)
(* the cell at position i of a notebook nb is nb[i + 1].                   *)
(***************************************************************************)
EXTENDS Integers, Sequences, FiniteSets, TLC

VARIABLES
    cells,                    \* the live notebook document (sequence of cells)
    disk,                     \* the cell sequence the last save wrote
    config,                   \* the jupyterSlideNav configuration
    isOpen,                   \* the notebook document is open
    activeEditor,             \* the notebook is vscode.window.activeNotebookEditor
    selection,                \* editor.selections[0].start, NoSelection if none
    activated,                \* activate() has run and deactivate() has not
    slideViewState,           \* Map<string, boolean>, a function on a set of URIs
    slideViewPendingReinsert, \* Set<string> of URIs
    statusBar,                \* the status bar item as last shown or hidden
    message,                  \* the last information message shown
    savePhase,                \* where the host's save of the notebook stands
    inflight,                 \* toggles suspended at their await, oldest first
    hostRejects,              \* the host may reject an edit batch
    last,                     \* the most recent handler run
    built,                    \* result of the last index build (index checks)
    read,                     \* result of the last getSlideType call
    nav,                      \* the most recent navigation command run
    initial                   \* the document as it was first opened

vars == <<cells, disk, config, isOpen, activeEditor, selection, activated,
          slideViewState, slideViewPendingReinsert, statusBar, message,
          savePhase, inflight, hostRejects, last, built, read, nav, initial>>

-----------------------------------------------------------------------------
(* Bounds of the model.                                                    *)

\* user cells of the notebook of the lifecycle specification
MaxCells == 3
\* cells of the notebooks the index is built on in the index specification
MaxBuildCells == 4
\* toggles that may be suspended at their await at the same time
MaxInflight == 1
\* spacer cells the notebook may hold (an insert batch beyond it is not issued)
MaxSpacers == 3
\* cells of the notebooks of the navigation specification
MaxNavCells == 3
\* cells of the notebooks of the slide-type specification
MaxTypedCells == 3

-----------------------------------------------------------------------------
(* Types and constants.                                                    *)

Absent == "absent"
NoSelection == -1
Uri == "nb"

SLIDE_TYPES == {"slide", "subslide"}

FRAGMENT_TYPES == {"slide", "subslide", "fragment"}

\* the default of jupyterSlideNav.slideViewSpacerLines
DefaultSpacerLines == 40

Min(a, b) == IF a < b THEN a ELSE b

Max(a, b) == IF a > b THEN a ELSE b

\* an ordinary cell of the user: content c, slide type t in the shape the
\* vscode.ipynb deserializer produces
UserCell(c, t) ==
    [content |-> <<"src", c>>, inner |-> t, custom |-> Absent,
     direct |-> Absent, flat |-> Absent, spacer |-> FALSE]

isSpacerCell(cell) == cell.spacer = TRUE

\* the spacer made as a slide cell without the marker
createSpacerCellDataAsSlide(lines) ==
    [content |-> <<"&nbsp;", lines>>, inner |-> "slide", custom |-> Absent,
     direct |-> Absent, flat |-> Absent, spacer |-> FALSE]

createSpacerCellData(lines) ==
    [content |-> <<"&nbsp;", lines>>, inner |-> "skip", custom |-> Absent,
     direct |-> Absent, flat |-> Absent, spacer |-> TRUE]

\* the top-level slide_type read ahead of the nested shapes
getSlideTypeFlatFirst(cell) ==
    IF cell.flat # Absent THEN cell.flat
    ELSE IF cell.inner # Absent THEN cell.inner
    ELSE IF cell.custom # Absent THEN cell.custom
    ELSE IF cell.direct # Absent THEN cell.direct
    ELSE Absent

getSlideType(cell) ==
    IF cell.inner # Absent THEN cell.inner
    ELSE IF cell.custom # Absent THEN cell.custom
    ELSE IF cell.direct # Absent THEN cell.direct
    ELSE IF cell.flat # Absent THEN cell.flat
    ELSE Absent

-----------------------------------------------------------------------------
(* buildSlideIndex: one pass over the cells, i the 0-based loop variable,  *)
(* index and slideNumber the loop's accumulators.                          *)

\* line 163: the cell has no slide type, or the placeholder
HasNoSlideType(slideType) ==
    slideType = Absent \/ slideType = "" \/ slideType = "-"

\* subslides never excluded
ExcludedSubslideNever(slideType, targets, cfg) == FALSE

\* subslides excluded at fragment granularity too
ExcludedSubslideAnyTargets(slideType, targets, cfg) ==
    ~cfg.includeSubslides /\ slideType = "subslide"

\* line 171: slide-level navigation with subslides excluded
ExcludedSubslide(slideType, targets, cfg) ==
    targets = SLIDE_TYPES /\ ~cfg.includeSubslides /\ slideType = "subslide"

\* the target filter forgotten
IsTargetAnyType(slideType, targets) == TRUE

\* line 175
IsTarget(slideType, targets) == slideType \in targets

\* every retained cell advances the slide number
CountsEveryCell(slideType) == TRUE

\* line 176: only slide and subslide cells advance the slide number
CountsAsSlide(slideType) == slideType \in {"slide", "subslide"}

\* line 179: slideNumber || 1
ClampSlideNumber(n) == IF n = 0 THEN 1 ELSE n

\* line 179: index.push
PushEntry(index, i, slideNumber) ==
    Append(index,
           [cellIndex |-> i, slideNumber |-> ClampSlideNumber(slideNumber)])

RECURSIVE BuildLoop(_, _, _, _, _, _)
BuildLoop(notebook, targets, cfg, i, index, slideNumber) ==
    IF i >= Len(notebook) THEN index
    ELSE
        LET cell == notebook[i + 1]
            slideType == getSlideType(cell)
            counted == IF CountsAsSlide(slideType)
                       THEN slideNumber + 1 ELSE slideNumber
        IN  IF isSpacerCell(cell)
            THEN BuildLoop(notebook, targets, cfg, i + 1, index, slideNumber)
            ELSE IF HasNoSlideType(slideType)
            THEN BuildLoop(notebook, targets, cfg, i + 1, index, slideNumber)
            ELSE IF slideType \in cfg.skipCellTypes
            THEN BuildLoop(notebook, targets, cfg, i + 1, index, slideNumber)
            ELSE IF ExcludedSubslide(slideType, targets, cfg)
            THEN BuildLoop(notebook, targets, cfg, i + 1, index, slideNumber)
            ELSE IF IsTarget(slideType, targets)
            THEN BuildLoop(notebook, targets, cfg, i + 1,
                           PushEntry(index, i, counted), counted)
            ELSE BuildLoop(notebook, targets, cfg, i + 1, index, slideNumber)

buildSlideIndex(notebook, targets, cfg) ==
    BuildLoop(notebook, targets, cfg, 0, <<>>, 0)

-----------------------------------------------------------------------------
(* Edit batches.  A batch is a sequence of NotebookEdit records; the host  *)
(* applies the whole batch or none of it.  The edits of a batch are        *)
(* applied in the order the code lists them, which is bottom to top.       *)

InsertCells(at, cell) == [kind |-> "insert", at |-> at, cell |-> cell]

\* the deletion aimed one cell too low
DeleteCellsBelow(at) ==
    [kind |-> "delete", at |-> at + 1, cell |-> createSpacerCellData(0)]

DeleteCells(at) ==
    [kind |-> "delete", at |-> at, cell |-> createSpacerCellData(0)]

ApplyEdit(notebook, e) ==
    IF e.kind = "insert"
    THEN SubSeq(notebook, 1, e.at) \o <<e.cell>>
             \o SubSeq(notebook, e.at + 1, Len(notebook))
    ELSE SubSeq(notebook, 1, e.at) \o SubSeq(notebook, e.at + 2, Len(notebook))

RECURSIVE ApplyEdits(_, _)
ApplyEdits(notebook, edits) ==
    IF edits = <<>> THEN notebook
    ELSE ApplyEdits(ApplyEdit(notebook, Head(edits)), Tail(edits))

\* the outcomes vscode.workspace.applyEdit can have
EditOutcomes == IF hostRejects THEN {TRUE, FALSE} ELSE {TRUE}

\* line 417: the loop stops at i = 1, the first slide gets no spacer
FirstSpacedEntry == 2

\* lines 417-422 of insertSpacers: one insertion per index entry, from the
\* last entry down to the second
SpacerInsertions(index, lines) ==
    [j \in 1 .. (Len(index) - FirstSpacedEntry + 1) |->
        InsertCells(index[Len(index) - j + 1].cellIndex,
                    createSpacerCellData(lines))]

\* a spacer above every entry, the first one and a lone one included
insertSpacersEveryEntry(notebook, cfg) ==
    LET index == buildSlideIndex(notebook, SLIDE_TYPES, cfg)
    IN  [j \in 1 .. Len(index) |->
            InsertCells(index[Len(index) - j + 1].cellIndex,
                        createSpacerCellData(cfg.slideViewSpacerLines))]

\* insertSpacers up to its applyEdit: the batch, empty when the function
\* returns without an edit
insertSpacers(notebook, cfg) ==
    LET index == buildSlideIndex(notebook, SLIDE_TYPES, cfg)
    IN  IF Len(index) <= 1 THEN <<>>
        ELSE SpacerInsertions(index, cfg.slideViewSpacerLines)

RECURSIVE DeletionLoop(_, _, _)

\* the deletion loop passes over the cell above each spacer it finds
DeletionLoopSkipsNeighbour(notebook, i, deletions) ==
    IF i < 0 THEN deletions
    ELSE IF isSpacerCell(notebook[i + 1])
         THEN DeletionLoop(notebook, i - 2, Append(deletions, DeleteCells(i)))
         ELSE DeletionLoop(notebook, i - 1, deletions)

DeletionLoop(notebook, i, deletions) ==
    IF i < 0 THEN deletions
    ELSE IF isSpacerCell(notebook[i + 1])
         THEN DeletionLoop(notebook, i - 1, Append(deletions, DeleteCells(i)))
         ELSE DeletionLoop(notebook, i - 1, deletions)

\* the deletions never reach the document
removeSpacersNoEdit(notebook) == <<>>

\* the deletion loop stops one spacer short
removeSpacersKeepFirst(notebook) ==
    LET d == DeletionLoop(notebook, Len(notebook) - 1, <<>>)
    IN  IF d = <<>> THEN d ELSE SubSeq(d, 1, Len(d) - 1)

\* removeSpacers up to its applyEdit: the batch, empty when the function
\* returns without an edit
removeSpacers(notebook) == DeletionLoop(notebook, Len(notebook) - 1, <<>>)

-----------------------------------------------------------------------------
(* The view state map and the editor's user interface.                     *)

\* slideViewState.get(uri), undefined read as false
IsSlideView(svs) == Uri \in DOMAIN svs /\ svs[Uri]

\* slideViewState.set(uri, v)
MapSet(svs, v) == [u \in {Uri} |-> v]

\* slideViewState.delete(uri)
MapDelete(svs) == [u \in {} |-> FALSE]

SpacerCount(notebook) ==
    Cardinality({k \in 1 .. Len(notebook) : isSpacerCell(notebook[k])})

NonSpacerCells(notebook) == SelectSeq(notebook, LAMBDA c : ~isSpacerCell(c))

\* the host keeps a selection inside the document
ClampSelection(sel, notebook) ==
    IF sel = NoSelection \/ notebook = <<>> THEN NoSelection
    ELSE Min(sel, Len(notebook) - 1)

getCurrentCellIndex(sel) == IF sel # NoSelection THEN sel ELSE 0

NoStatusBar ==
    [shown |-> FALSE, slideNumber |-> 0, totalSlides |-> 0, slideView |-> FALSE]

\* the user interface one handler run works on
UI == [selection |-> selection, statusBar |-> statusBar, message |-> message]

HideStatusBar(ui) == [ui EXCEPT !.statusBar.shown = FALSE]

\* every entry of the index counted in the total
updateStatusBarCountsEntries(ui, notebook, index, current, svs, cfg) ==
    IF ~cfg.showStatusBar THEN HideStatusBar(ui)
    ELSE [ui EXCEPT !.statusBar =
             [shown |-> TRUE, slideNumber |-> current.slideNumber,
              totalSlides |-> Len(index), slideView |-> IsSlideView(svs)]]

updateStatusBar(ui, notebook, index, current, svs, cfg) ==
    IF ~cfg.showStatusBar THEN HideStatusBar(ui)
    ELSE
        LET totalSlides ==
                Cardinality({k \in 1 .. Len(index) :
                    getSlideType(notebook[index[k].cellIndex + 1])
                        \in {"slide", "subslide"}})
        IN  [ui EXCEPT !.statusBar =
                [shown |-> TRUE, slideNumber |-> current.slideNumber,
                 totalSlides |-> totalSlides, slideView |-> IsSlideView(svs)]]

refreshStatusBarForSelection(ui, notebook, svs, cfg) ==
    IF ~cfg.showStatusBar THEN HideStatusBar(ui)
    ELSE
        LET index == buildSlideIndex(notebook, SLIDE_TYPES, cfg)
            current == getCurrentCellIndex(ui.selection)
            before == {k \in 1 .. Len(index) : index[k].cellIndex <= current}
        IN  IF Len(index) = 0 THEN HideStatusBar(ui)
            ELSE IF before = {} THEN ui
            ELSE updateStatusBar(ui, notebook, index,
                                 index[CHOOSE k \in before :
                                           \A j \in before : j <= k],
                                 svs, cfg)

\* firstSlide with the notebook the active editor, or no active editor
firstSlide(ui, active, notebook, svs, cfg) ==
    IF ~active THEN ui
    ELSE
        LET index == buildSlideIndex(notebook, SLIDE_TYPES, cfg)
        IN  IF Len(index) = 0 THEN [ui EXCEPT !.message = "noSlides"]
            ELSE updateStatusBar([ui EXCEPT !.selection = index[1].cellIndex],
                                 notebook, index, index[1], svs, cfg)

SetUI(ui) ==
    /\ selection' = ui.selection
    /\ statusBar' = ui.statusBar
    /\ message' = ui.message

-----------------------------------------------------------------------------
(* The most recent handler run, kept for stating the properties: op names *)
(* the handler, ok is the outcome of its edit batch, pre the document      *)
(* before the handler started, and clean says that no other handler ran    *)
(* between a toggle's await and its resumption.  base is the document      *)
(* before the run that this one continues: for a toggle whose predecessor  *)
(* is an undisturbed toggle-on, the document before that toggle-on; for    *)
(* the write and the did-save of a save, the document before its           *)
(* will-save.                                                              *)

NoBase == [set |-> FALSE, doc |-> <<>>]

BaseOf(doc) == [set |-> TRUE, doc |-> doc]

Entry(op, pre, clean, ok, base) ==
    [op |-> op, pre |-> pre, clean |-> clean, ok |-> ok, base |-> base]

Log(op, ok) == last' = Entry(op, cells, TRUE, ok, NoBase)

\* the base of a toggle that starts now
ToggleBase ==
    IF last.op = "toggleOn" /\ last.clean THEN BaseOf(last.pre) ELSE NoBase

Disturbed(fl) == [k \in DOMAIN fl |-> [fl[k] EXCEPT !.clean = FALSE]]

\* the host runs other handlers except between the will-save hook and the write
Dispatching == activated /\ savePhase # "willSave"

-----------------------------------------------------------------------------
(* The notebooks and configurations of the lifecycle specification.        *)

LifecycleTypes == {"slide", "subslide"}

\* the cell at place i of a notebook: a spacer, or an ordinary cell of type k
BuildCell(i, k) ==
    IF k = "spacer" THEN createSpacerCellData(DefaultSpacerLines)
    ELSE UserCell(i, k)

\* the notebook of n cells whose kinds the sequence ks lists
NotebookOf(n, ks) == [i \in 1 .. n |-> BuildCell(i, ks[i])]

Configs ==
    [includeSubslides : BOOLEAN, skipCellTypes : {{}},
     showStatusBar : {TRUE}, slideViewSpacerLines : {DefaultSpacerLines}]

NotBuilt == [done |-> FALSE, slide |-> <<>>, fragment |-> <<>>]

NotRead == [done |-> FALSE, slideType |-> Absent]

\* no selection kept from the command before
NoOrigin == [set |-> FALSE, at |-> NoSelection]

\* no navigation command has run
NoNav ==
    [op |-> "none", targets |-> {}, from |-> NoSelection, doc |-> <<>>,
     shown |-> "none", origin |-> NoOrigin]

\* the state before activation with the notebook cells holds open in the
\* active editor
InitRest(configs, rejects) ==
    /\ disk = cells
    /\ config \in configs
    /\ isOpen = TRUE
    /\ activeEditor = TRUE
    /\ selection = IF cells = <<>> THEN NoSelection ELSE 0
    /\ activated = FALSE
    /\ slideViewState = MapDelete(<<>>)
    /\ slideViewPendingReinsert = {}
    /\ statusBar = NoStatusBar
    /\ message = "none"
    /\ savePhase = "idle"
    /\ inflight = <<>>
    /\ hostRejects = rejects
    /\ last = Entry("init", cells, TRUE, TRUE, NoBase)
    /\ built = NotBuilt
    /\ read = NotRead
    /\ nav = NoNav
    /\ initial = cells

\* the notebook is one of docs
InitWith(docs, configs, rejects) ==
    /\ cells \in docs
    /\ InitRest(configs, rejects)

\* the notebook is any of up to maxCells cells of the kinds given
InitOver(kinds, maxCells, configs, rejects) ==
    /\ \E n \in 0 .. maxCells :
           \E ks \in [1 .. n -> kinds] : cells = NotebookOf(n, ks)
    /\ InitRest(configs, rejects)

Init == InitOver(LifecycleTypes, MaxCells, Configs, FALSE)

InitReject == InitOver(LifecycleTypes, MaxCells, Configs, TRUE)

-----------------------------------------------------------------------------
(* activate and deactivate.                                                *)

\* lines 549-568: status for the active editor, then the orphan cleanup
Activate ==
    /\ ~activated
    /\ activated' = TRUE
    /\ LET batch == IF activeEditor THEN removeSpacers(cells) ELSE <<>>
           ui == IF activeEditor
                 THEN refreshStatusBarForSelection(UI, cells, slideViewState,
                                                   config)
                 ELSE UI
       IN  \E ok \in EditOutcomes :
             /\ batch = <<>> => ok
             /\ cells' = IF ok THEN ApplyEdits(cells, batch) ELSE cells
             /\ SetUI([ui EXCEPT !.selection = ClampSelection(@, cells')])
             /\ Log("activate", ok)
    /\ UNCHANGED <<disk, config, isOpen, activeEditor, slideViewState,
                   slideViewPendingReinsert, savePhase, inflight, hostRejects,
                   built, read, nav, initial>>

\* lines 571-576; the window keeps the document with its unsaved cells, the
\* handlers of the old extension host are gone
Deactivate ==
    /\ Dispatching
    /\ activated' = FALSE
    /\ statusBar' = NoStatusBar
    /\ slideViewState' = MapDelete(slideViewState)
    /\ slideViewPendingReinsert' = {}
    /\ inflight' = <<>>
    /\ savePhase' = "idle"
    /\ Log("deactivate", TRUE)
    /\ UNCHANGED <<cells, disk, config, isOpen, activeEditor, selection,
                   message, hostRejects, built, read, nav, initial>>

-----------------------------------------------------------------------------
(* toggleSlideView.  The handler runs to its await of applyEdit in one     *)
(* step; the host applies or rejects the batch; the rest of the handler    *)
(* runs when the promise resolves, after whatever the host dispatched in   *)
(* between.  When insertSpacers or removeSpacers returns without an edit   *)
(* the await resolves at once and the handler is one step.                 *)

\* the part after the await without the jump to the first slide
ToggleRestNoJump(ui, turnOn, active, notebook) ==
    refreshStatusBarForSelection(ui, notebook, MapSet(slideViewState, turnOn),
                                 config)

\* lines 462-472, the part after the await
ToggleRest(ui, turnOn, active, notebook) ==
    LET svs == MapSet(slideViewState, turnOn)
        ui1 == IF turnOn THEN firstSlide(ui, active, notebook, svs, config)
               ELSE ui
    IN  refreshStatusBarForSelection(ui1, notebook, svs, config)

\* an insert batch the model lets the host see
WithinSpacerBound(notebook, batch) ==
    SpacerCount(notebook) + Len(batch) <= MaxSpacers

ToggleSlideView ==
    /\ Dispatching
    /\ activeEditor
    /\ LET isActive == IsSlideView(slideViewState)
           batch == IF isActive THEN removeSpacers(cells)
                    ELSE insertSpacers(cells, config)
       IN  IF batch = <<>>
           THEN /\ slideViewState' = MapSet(slideViewState, ~isActive)
                /\ SetUI(ToggleRest(UI, ~isActive, activeEditor, cells))
                /\ last' = Entry(IF isActive THEN "toggleOff" ELSE "toggleOn",
                                 cells, TRUE, TRUE, ToggleBase)
                /\ inflight' = Disturbed(inflight)
                /\ UNCHANGED cells
           ELSE /\ Len(inflight) < MaxInflight
                /\ isActive \/ WithinSpacerBound(cells, batch)
                /\ \E ok \in EditOutcomes :
                     /\ cells' = IF ok THEN ApplyEdits(cells, batch) ELSE cells
                     /\ inflight' =
                            Append(Disturbed(inflight),
                                   [turnOn |-> ~isActive, pre |-> cells,
                                    clean |-> TRUE, ok |-> ok,
                                    base |-> ToggleBase])
                     /\ Log(IF isActive THEN "toggleOffEdit"
                            ELSE "toggleOnEdit", ok)
                /\ selection' = ClampSelection(selection, cells')
                /\ UNCHANGED <<slideViewState, statusBar, message>>
    /\ UNCHANGED <<disk, config, isOpen, activeEditor, activated,
                   slideViewPendingReinsert, savePhase, hostRejects,
                   built, read, nav, initial>>

ToggleResume ==
    /\ Dispatching
    /\ inflight # <<>>
    /\ LET r == Head(inflight)
       IN  /\ slideViewState' = MapSet(slideViewState, r.turnOn)
           /\ SetUI(ToggleRest(UI, r.turnOn, activeEditor, cells))
           /\ last' = Entry(IF r.turnOn THEN "toggleOn" ELSE "toggleOff",
                            r.pre, r.clean, r.ok, r.base)
    /\ inflight' = Tail(inflight)
    /\ UNCHANGED <<cells, disk, config, isOpen, activeEditor, activated,
                   slideViewPendingReinsert, savePhase, hostRejects,
                   built, read, nav, initial>>

-----------------------------------------------------------------------------
(* The save lifecycle.                                                     *)

\* the will-save handler without its look at slideViewState
WillSaveAnyState ==
    /\ Dispatching
    /\ isOpen
    /\ savePhase = "idle"
    /\ savePhase' = "willSave"
    /\ slideViewPendingReinsert' = slideViewPendingReinsert \cup {Uri}
    /\ LET batch == removeSpacers(cells)
       IN  \E ok \in EditOutcomes :
             /\ batch = <<>> => ok
             /\ cells' = IF ok THEN ApplyEdits(cells, batch) ELSE cells
             /\ Log("willSave", ok)
    /\ selection' = ClampSelection(selection, cells')
    /\ inflight' = Disturbed(inflight)
    /\ UNCHANGED <<disk, config, isOpen, activeEditor, activated,
                   slideViewState, statusBar, message, hostRejects,
                   built, read, nav, initial>>

\* lines 520-526; the host awaits the removal before it writes
WillSave ==
    /\ Dispatching
    /\ isOpen
    /\ savePhase = "idle"
    /\ savePhase' = "willSave"
    /\ IF IsSlideView(slideViewState)
       THEN /\ slideViewPendingReinsert' = slideViewPendingReinsert \cup {Uri}
            /\ LET batch == removeSpacers(cells)
               IN  \E ok \in EditOutcomes :
                     /\ batch = <<>> => ok
                     /\ cells' = IF ok THEN ApplyEdits(cells, batch) ELSE cells
                     /\ Log("willSave", ok)
       ELSE /\ Log("willSave", TRUE)
            /\ UNCHANGED <<cells, slideViewPendingReinsert>>
    /\ selection' = ClampSelection(selection, cells')
    /\ inflight' = Disturbed(inflight)
    /\ UNCHANGED <<disk, config, isOpen, activeEditor, activated,
                   slideViewState, statusBar, message, hostRejects,
                   built, read, nav, initial>>

\* the host writes the document
SaveWrite ==
    /\ activated
    /\ savePhase = "willSave"
    /\ savePhase' = "written"
    /\ disk' = cells
    /\ last' = Entry("save", cells, TRUE, TRUE,
                     IF last.op = "willSave" /\ IsSlideView(slideViewState)
                     THEN BaseOf(last.pre) ELSE NoBase)
    /\ inflight' = Disturbed(inflight)
    /\ UNCHANGED <<cells, config, isOpen, activeEditor, selection, activated,
                   slideViewState, slideViewPendingReinsert, statusBar,
                   message, hostRejects, built, read, nav, initial>>

\* the write fails: the host reports no did-save
SaveFail ==
    /\ activated
    /\ savePhase = "willSave"
    /\ savePhase' = "idle"
    /\ Log("saveFail", TRUE)
    /\ inflight' = Disturbed(inflight)
    /\ UNCHANGED <<cells, disk, config, isOpen, activeEditor, selection,
                   activated, slideViewState, slideViewPendingReinsert,
                   statusBar, message, hostRejects, built, read, nav, initial>>

\* lines 531-537
DidSave ==
    /\ activated
    /\ savePhase = "written"
    /\ savePhase' = "idle"
    /\ IF Uri \in slideViewPendingReinsert
       THEN /\ slideViewPendingReinsert' = slideViewPendingReinsert \ {Uri}
            /\ LET batch == insertSpacers(cells, config)
               IN  /\ WithinSpacerBound(cells, batch)
                   /\ \E ok \in EditOutcomes :
                        /\ batch = <<>> => ok
                        /\ cells' = IF ok THEN ApplyEdits(cells, batch)
                                    ELSE cells
                        /\ last' = Entry("didSave", cells, TRUE, ok,
                                         IF last.op = "save" THEN last.base
                                         ELSE NoBase)
       ELSE /\ last' = Entry("didSave", cells, TRUE, TRUE, NoBase)
            /\ UNCHANGED <<cells, slideViewPendingReinsert>>
    /\ inflight' = Disturbed(inflight)
    /\ UNCHANGED <<disk, config, isOpen, activeEditor, selection, activated,
                   slideViewState, statusBar, message, hostRejects,
                   built, read, nav, initial>>

-----------------------------------------------------------------------------
(* Editors and documents.                                                  *)

\* lines 503-509
ChangeActiveEditor ==
    /\ Dispatching
    /\ isOpen
    /\ activeEditor' = ~activeEditor
    /\ SetUI(IF activeEditor' 
             THEN refreshStatusBarForSelection(UI, cells, slideViewState,
                                               config)
             ELSE HideStatusBar(UI))
    /\ Log("activeEditor", TRUE)
    /\ inflight' = Disturbed(inflight)
    /\ UNCHANGED <<cells, disk, config, isOpen, activated, slideViewState,
                   slideViewPendingReinsert, savePhase, hostRejects,
                   built, read, nav, initial>>

\* lines 542-546; an active editor of the document goes with it (503-509)
CloseNotebook ==
    /\ Dispatching
    /\ isOpen
    /\ isOpen' = FALSE
    /\ activeEditor' = FALSE
    /\ slideViewState' = MapDelete(slideViewState)
    /\ slideViewPendingReinsert' = slideViewPendingReinsert \ {Uri}
    /\ SetUI(IF activeEditor THEN HideStatusBar(UI) ELSE UI)
    /\ Log("close", TRUE)
    /\ inflight' = Disturbed(inflight)
    /\ UNCHANGED <<cells, disk, config, activated, savePhase, hostRejects,
                   built, read, nav, initial>>

\* the document is opened again from what was saved and becomes the active
\* editor (503-509)
OpenNotebook ==
    /\ Dispatching
    /\ ~isOpen
    /\ savePhase = "idle"
    /\ inflight = <<>>
    /\ isOpen' = TRUE
    /\ activeEditor' = TRUE
    /\ cells' = disk
    /\ LET sel == IF disk = <<>> THEN NoSelection ELSE 0
       IN  SetUI(refreshStatusBarForSelection([UI EXCEPT !.selection = sel],
                                               disk, slideViewState, config))
    /\ Log("open", TRUE)
    /\ UNCHANGED <<disk, config, activated, slideViewState,
                   slideViewPendingReinsert, savePhase, inflight, hostRejects,
                   built, read, nav, initial>>

Next ==
    \/ Activate
    \/ Deactivate
    \/ ToggleSlideView
    \/ ToggleResume
    \/ WillSave
    \/ SaveWrite
    \/ SaveFail
    \/ DidSave
    \/ ChangeActiveEditor
    \/ CloseNotebook
    \/ OpenNotebook

Spec == Init /\ [][Next]_vars

SpecReject == InitReject /\ [][Next]_vars

-----------------------------------------------------------------------------
(* The index specification: buildSlideIndex on every notebook of up to     *)
(* MaxBuildCells cells, each an ordinary cell of some slide type or a      *)
(* spacer cell, under every configuration of BuildConfigs.                 *)

BuildTypes == {"slide", "subslide", "fragment", "skip", "-", Absent}

BuildConfigs ==
    [includeSubslides : BOOLEAN,
     skipCellTypes : {{}, {"subslide"}, {"fragment", "skip"}},
     showStatusBar : {TRUE}, slideViewSpacerLines : {DefaultSpacerLines}]

InitBuild ==
    InitOver(BuildTypes \cup {"spacer"}, MaxBuildCells, BuildConfigs, FALSE)

\* both indexes of the notebook, as the navigation commands build them
BuildIndexes ==
    /\ ~built.done
    /\ built' = [done |-> TRUE,
                 slide |-> buildSlideIndex(cells, SLIDE_TYPES, config),
                 fragment |-> buildSlideIndex(cells, FRAGMENT_TYPES, config)]
    /\ UNCHANGED <<cells, disk, config, isOpen, activeEditor, selection,
                   activated, slideViewState, slideViewPendingReinsert,
                   statusBar, message, savePhase, inflight, hostRejects, last,
                   read, nav, initial>>

NextBuild == BuildIndexes

SpecBuild == InitBuild /\ [][NextBuild]_vars

-----------------------------------------------------------------------------
(* Properties of the spacer lifecycle.                                     *)

\* the slide-granularity index of a notebook under the configuration
SlideIndexOf(notebook) == buildSlideIndex(notebook, SLIDE_TYPES, config)

\* a toggle whose await no other handler run disturbed has just completed
CleanToggle(op) == last.op = op /\ last.clean /\ inflight = <<>>

\* C1: whatever the sequence of toggle, will-save, save, did-save, close and
\* activation events, the cell sequence a save writes to disk holds no
\* spacer cell.  Stated for the saves that start while no toggle is
\* suspended at its await.
C1_SavedWithoutSpacers ==
    (last.op = "save" /\ inflight = <<>>) => SpacerCount(disk) = 0

\* C2: with spacer view on, a save that runs will-save, write and did-save
\* with no other event in between leaves the live document equal to the
\* document before the save.
C2_SaveRoundTrip ==
    (last.op = "didSave" /\ last.base.set /\ inflight = <<>>)
        => cells = last.base.doc

\* C3: toggling spacer view on and then off, with no other event in
\* between, restores the cell sequence the document had before the first
\* toggle, and spacerActive is false again.
C3_ToggleOnOffRestores ==
    (CleanToggle("toggleOff") /\ last.base.set)
        => /\ cells = last.base.doc
           /\ ~IsSlideView(slideViewState)

\* the document with a filler cell and a sentinel cell in front of every
\* slide-granularity entry but the first
RECURSIVE WithSpacerPairs(_, _, _, _)
WithSpacerPairs(notebook, index, k, cell) ==
    IF k < 2 THEN notebook
    ELSE WithSpacerPairs(
             ApplyEdits(notebook,
                        <<InsertCells(index[k].cellIndex, cell),
                          InsertCells(index[k].cellIndex, cell)>>),
             index, k - 1, cell)

\* C4: the Off-to-On toggle on a spacer-free document whose slide index has
\* n >= 2 entries puts a two-cell pair (filler, sentinel) right above every
\* entry but the first, none above the first: 2 * (n - 1) spacer cells.
C4_SpacerPairPerBoundary ==
    (/\ last.op = "toggleOnEdit"
     /\ last.ok
     /\ SpacerCount(last.pre) = 0
     /\ Len(SlideIndexOf(last.pre)) >= 2)
        => /\ SpacerCount(cells) = 2 * (Len(SlideIndexOf(last.pre)) - 1)
           /\ cells = WithSpacerPairs(last.pre, SlideIndexOf(last.pre),
                                      Len(SlideIndexOf(last.pre)),
                                      createSpacerCellData(
                                          config.slideViewSpacerLines))

\* the Off-to-On toggle has just run on a document whose slide index has at
\* most one entry
ToggledOnWithoutBoundary ==
    /\ last.op = "toggleOn"
    /\ Len(SlideIndexOf(last.pre)) <= 1

\* C5 as stated: toggling spacer view on a document whose slide index has 0
\* or 1 entries inserts no cell and leaves spacerActive false.
C5_ToggleNoOpKeepsOff ==
    ToggledOnWithoutBoundary
        => /\ cells = last.pre
           /\ ~IsSlideView(slideViewState)

\* C5 as amended: toggling spacer view on a document whose slide index has
\* 0 or 1 entries inserts no cell; spacerActive becomes true all the same.
C5_ToggleInsertsNothingTurnsOn ==
    ToggledOnWithoutBoundary
        => /\ cells = last.pre
           /\ IsSlideView(slideViewState)

C5_Witness ==
    /\ ToggledOnWithoutBoundary
    /\ Len(last.pre) >= 2
    /\ Len(SlideIndexOf(last.pre)) = 1

\* C6: when the host rejects the insert batch of a toggle-on or the delete
\* batch of a toggle-off, spacerActive keeps the value it had before the
\* toggle.
C6_RejectedEditKeepsState ==
    /\ (CleanToggle("toggleOn") /\ ~last.ok) => ~IsSlideView(slideViewState)
    /\ (CleanToggle("toggleOff") /\ ~last.ok) => IsSlideView(slideViewState)

\* activate has just run with the document in the active editor and spacer
\* cells in it
OrphansAtActivation ==
    /\ last.op = "activate"
    /\ activeEditor
    /\ SpacerCount(last.pre) > 0

\* C7: at activation, when the active document holds spacer cells (no
\* spacerActive entry exists for it then), the orphan scan removes every
\* spacer cell and leaves all other cells in place.
C7_OrphansRemovedAtActivation ==
    OrphansAtActivation
        => /\ SpacerCount(cells) = 0
           /\ cells = NonSpacerCells(last.pre)
           /\ Uri \notin DOMAIN slideViewState

C7_Witness ==
    /\ OrphansAtActivation
    /\ SpacerCount(last.pre) >= 2
    /\ Len(cells) >= 2

\* C8: whenever the document becomes the active document, not only at
\* activation, and holds spacer cells without an On state, those spacer
\* cells are removed.
C8_OrphansRemovedWhenActive ==
    (/\ last.op \in {"activeEditor", "open"}
     /\ activeEditor
     /\ inflight = <<>>
     /\ ~IsSlideView(slideViewState))
        => SpacerCount(cells) = 0

-----------------------------------------------------------------------------
(* Properties of the slide index.                                          *)

TypeAt(notebook, entry) == getSlideType(notebook[entry.cellIndex + 1])

StrictlyIncreasing(index) ==
    \A k \in 1 .. Len(index) - 1 : index[k].cellIndex < index[k + 1].cellIndex

\* C9: the entries of an index are strictly increasing by position, and the
\* cell at every entry's position has a slide type of the target set.
C9_IndexSortedAndInTargets ==
    built.done
        => /\ StrictlyIncreasing(built.slide)
           /\ StrictlyIncreasing(built.fragment)
           /\ \A k \in 1 .. Len(built.slide) :
                  /\ built.slide[k].cellIndex \in 0 .. Len(cells) - 1
                  /\ TypeAt(cells, built.slide[k]) \in SLIDE_TYPES
           /\ \A k \in 1 .. Len(built.fragment) :
                  /\ built.fragment[k].cellIndex \in 0 .. Len(cells) - 1
                  /\ TypeAt(cells, built.fragment[k]) \in FRAGMENT_TYPES

C9_Witness ==
    /\ built.done
    /\ Len(built.slide) >= 2
    /\ Len(built.fragment) > Len(built.slide)

\* the slide and subslide entries of an index up to its k-th entry
BoundariesUpTo(notebook, index, k) ==
    {j \in 1 .. k : TypeAt(notebook, index[j]) \in {"slide", "subslide"}}

OrdinalsCountBoundaries(notebook, index) ==
    \A k \in 1 .. Len(index) :
        index[k].slideNumber
            = Max(1, Cardinality(BoundariesUpTo(notebook, index, k)))

OrdinalsNonDecreasing(index) ==
    \A k \in 1 .. Len(index) - 1 :
        index[k].slideNumber <= index[k + 1].slideNumber

DefaultConfig ==
    [includeSubslides |-> TRUE, skipCellTypes |-> {}, showStatusBar |-> TRUE,
     slideViewSpacerLines |-> DefaultSpacerLines]

ExampleDoc ==
    <<UserCell(1, "slide"), UserCell(2, "fragment"), UserCell(3, "subslide"),
      UserCell(4, "skip"), UserCell(5, "slide")>>

\* C10: an entry's ordinal is max(1, number of slide and subslide entries
\* of the index up to and including it); ordinals never decrease, and a
\* fragment before any slide boundary has ordinal 1.  For the cells slide,
\* fragment, subslide, skip, slide under the default configuration the
\* slide index is positions 0, 2, 4 with ordinals 1, 2, 3 and the fragment
\* index is positions 0, 1, 2, 4 with ordinals 1, 1, 2, 3.
C10_OrdinalsCountBoundaries ==
    built.done
        => /\ OrdinalsCountBoundaries(cells, built.slide)
           /\ OrdinalsCountBoundaries(cells, built.fragment)
           /\ OrdinalsNonDecreasing(built.slide)
           /\ OrdinalsNonDecreasing(built.fragment)
           /\ buildSlideIndex(ExampleDoc, SLIDE_TYPES, DefaultConfig)
                = <<[cellIndex |-> 0, slideNumber |-> 1],
                    [cellIndex |-> 2, slideNumber |-> 2],
                    [cellIndex |-> 4, slideNumber |-> 3]>>
           /\ buildSlideIndex(ExampleDoc, FRAGMENT_TYPES, DefaultConfig)
                = <<[cellIndex |-> 0, slideNumber |-> 1],
                    [cellIndex |-> 1, slideNumber |-> 1],
                    [cellIndex |-> 2, slideNumber |-> 2],
                    [cellIndex |-> 4, slideNumber |-> 3]>>

\* a fragment ahead of every slide boundary, and a fragment after two
C10_Witness ==
    /\ built.done
    /\ Len(built.fragment) >= 3
    /\ TypeAt(cells, built.fragment[1]) = "fragment"
    /\ built.fragment[1].slideNumber = 1
    /\ \E k \in 2 .. Len(built.fragment) :
           /\ TypeAt(cells, built.fragment[k]) = "fragment"
           /\ built.fragment[k].slideNumber = 2

-----------------------------------------------------------------------------
(* The metadata specification: getSlideType on a cell with every           *)
(* combination of the four metadata shapes, each holding one of            *)
(* ShapeValues or no string.                                               *)

\* "" is a string: typeof "" === "string"
ShapeValues == {"slide", "fragment", ""}

ReadCells ==
    [content : {<<"src", 1>>}, inner : ShapeValues \cup {Absent},
     custom : ShapeValues \cup {Absent}, direct : ShapeValues \cup {Absent},
     flat : ShapeValues \cup {Absent}, spacer : {FALSE}]

ReadDocs == {<<c>> : c \in ReadCells}

InitRead == InitWith(ReadDocs, {DefaultConfig}, FALSE)

\* getSlideType on the cell of the notebook, as buildSlideIndex calls it
ReadSlideType ==
    /\ ~read.done
    /\ cells # <<>>
    /\ read' = [done |-> TRUE, slideType |-> getSlideType(cells[1])]
    /\ UNCHANGED <<cells, disk, config, isOpen, activeEditor, selection,
                   activated, slideViewState, slideViewPendingReinsert,
                   statusBar, message, savePhase, inflight, hostRejects, last,
                   built, nav, initial>>

NextRead == ReadSlideType

SpecRead == InitRead /\ [][NextRead]_vars

\* the four shapes in the order the claim lists them
Shapes(cell) == <<cell.inner, cell.custom, cell.direct, cell.flat>>

HoldsString(cell, k) == Shapes(cell)[k] # Absent

\* C20: getSlideType checks metadata.slideshow.slide_type,
\* custom.metadata.slideshow.slide_type, slideshow.slide_type and the
\* top-level slide_type in this order and returns the string of the first
\* shape that holds a string; it returns the absent value when no shape
\* holds one, for every combination of present and absent shapes.
C20_FirstShapeWins ==
    read.done
        => LET cell == cells[1]
               holding == {k \in 1 .. 4 : HoldsString(cell, k)}
           IN  IF holding = {} THEN read.slideType = Absent
               ELSE \E k \in holding :
                        /\ \A j \in holding : k <= j
                        /\ read.slideType = Shapes(cell)[k]

\* the first shape is absent, the second and the fourth hold different
\* strings
C20_Witness ==
    /\ read.done
    /\ cells[1].inner = Absent
    /\ cells[1].custom = "fragment"
    /\ cells[1].flat = "slide"
    /\ read.slideType = "fragment"

-----------------------------------------------------------------------------
(* The slide-type specification: buildSlideIndex on every notebook of up   *)
(* to MaxTypedCells cells whose slide types range over the whole SlideType *)
(* type, the empty string, no type and a string outside the type.          *)

\* line 4: the SlideType type without its placeholder "-"
SlideTypeNames == {"slide", "subslide", "fragment", "skip", "notes"}

\* a slide_type string that is none of the SlideType type
OtherType == "other"

TypedTypes == SlideTypeNames \cup {"-", "", Absent, OtherType}

InitTyped ==
    InitOver(TypedTypes \cup {"spacer"}, MaxTypedCells, BuildConfigs, FALSE)

SpecTyped == InitTyped /\ [][NextBuild]_vars

\* the cells an index lists
IndexedCells(notebook, index) ==
    {notebook[index[k].cellIndex + 1] : k \in 1 .. Len(index)}

\* C11: build never yields an entry for a spacer cell, a cell without slide
\* type, a cell whose type is the placeholder, a cell whose type is in
\* skipTypes or a cell whose type string is outside the enumeration; the
\* slide-granularity index holds no subslide when includeSubslides is
\* false, while the fragment-granularity index still lists every subslide
\* that is not skipped.
C11_ExcludedCellsNeverIndexed ==
    built.done
        => /\ \A c \in IndexedCells(cells, built.slide)
                       \cup IndexedCells(cells, built.fragment) :
                  /\ ~isSpacerCell(c)
                  /\ getSlideType(c) \notin {Absent, "", "-"}
                  /\ getSlideType(c) \notin config.skipCellTypes
                  /\ getSlideType(c) \in SlideTypeNames
           /\ ~config.includeSubslides
                  => \A c \in IndexedCells(cells, built.slide) :
                         getSlideType(c) # "subslide"
           /\ \A i \in 1 .. Len(cells) :
                  (/\ ~isSpacerCell(cells[i])
                   /\ getSlideType(cells[i]) = "subslide"
                   /\ "subslide" \notin config.skipCellTypes)
                      => cells[i] \in IndexedCells(cells, built.fragment)

\* subslides excluded from the slide index and kept in the fragment index,
\* in a notebook with a spacer and a cell of a type outside the enumeration
C11_Witness ==
    /\ built.done
    /\ ~config.includeSubslides
    /\ \E c \in IndexedCells(cells, built.fragment) :
           getSlideType(c) = "subslide"
    /\ \E i \in 1 .. Len(cells) : isSpacerCell(cells[i])
    /\ \E i \in 1 .. Len(cells) : getSlideType(cells[i]) = OtherType

-----------------------------------------------------------------------------
(* The navigation commands.  Each takes the user interface it works on and *)
(* returns the one it leaves; active says whether there is an active       *)
(* notebook editor.                                                        *)

Lowest(S) == CHOOSE k \in S : \A j \in S : k <= j

\* the scan from the end replaced by a scan from the start
HighestFromStart(S) == Lowest(S)

Highest(S) == CHOOSE k \in S : \A j \in S : j <= k

\* the current cell taken for a cell after itself
IsAfterOrAt(c, current) == c >= current

\* line 232: s.cellIndex > current
IsAfter(c, current) == c > current

\* the current cell taken for a cell before itself
IsBeforeOrAt(c, current) == c <= current

\* line 262: index[i].cellIndex < current
IsBefore(c, current) == c < current

\* lines 189-200 and the updateStatusBar call that follows every jump
navigateToCell(ui, notebook, index, entry, svs, cfg) ==
    updateStatusBar([ui EXCEPT !.selection = entry.cellIndex],
                    notebook, index, entry, svs, cfg)

\* advance that wraps around to the first entry at the end of the index
nextSlideWrapsAround(ui, active, notebook, targets, svs, cfg) ==
    IF ~active THEN ui
    ELSE
        LET index == buildSlideIndex(notebook, targets, cfg)
            current == getCurrentCellIndex(ui.selection)
            after == {k \in 1 .. Len(index) :
                         IsAfter(index[k].cellIndex, current)}
        IN  IF Len(index) = 0 THEN [ui EXCEPT !.message = "noSlides"]
            ELSE IF after = {}
            THEN navigateToCell(ui, notebook, index, index[1], svs, cfg)
            ELSE navigateToCell(ui, notebook, index, index[Lowest(after)],
                                svs, cfg)

nextSlide(ui, active, notebook, targets, svs, cfg) ==
    IF ~active THEN ui
    ELSE
        LET index == buildSlideIndex(notebook, targets, cfg)
            current == getCurrentCellIndex(ui.selection)
            after == {k \in 1 .. Len(index) :
                         IsAfter(index[k].cellIndex, current)}
        IN  IF Len(index) = 0 THEN [ui EXCEPT !.message = "noSlides"]
            ELSE IF after = {} THEN [ui EXCEPT !.message = "atEnd"]
            ELSE navigateToCell(ui, notebook, index, index[Lowest(after)],
                                svs, cfg)

prevSlide(ui, active, notebook, targets, svs, cfg) ==
    IF ~active THEN ui
    ELSE
        LET index == buildSlideIndex(notebook, targets, cfg)
            current == getCurrentCellIndex(ui.selection)
            before == {k \in 1 .. Len(index) :
                          IsBefore(index[k].cellIndex, current)}
        IN  IF Len(index) = 0 THEN [ui EXCEPT !.message = "noSlides"]
            ELSE IF before = {} THEN [ui EXCEPT !.message = "atStart"]
            ELSE navigateToCell(ui, notebook, index, index[Highest(before)],
                                svs, cfg)

\* the last stop taken from the fragment-granularity index
lastSlideOfFragments(ui, active, notebook, svs, cfg) ==
    IF ~active THEN ui
    ELSE
        LET index == buildSlideIndex(notebook, FRAGMENT_TYPES, cfg)
        IN  IF Len(index) = 0 THEN [ui EXCEPT !.message = "noSlides"]
            ELSE navigateToCell(ui, notebook, index, index[Len(index)],
                                svs, cfg)

lastSlide(ui, active, notebook, svs, cfg) ==
    IF ~active THEN ui
    ELSE
        LET index == buildSlideIndex(notebook, SLIDE_TYPES, cfg)
        IN  IF Len(index) = 0 THEN [ui EXCEPT !.message = "noSlides"]
            ELSE navigateToCell(ui, notebook, index, index[Len(index)],
                                svs, cfg)

-----------------------------------------------------------------------------
(* The navigation specification: the six navigation commands and the       *)
(* user's moves of the selection on notebooks of up to MaxNavCells cells.  *)
(* nav keeps the command that ran last: the selection and the document it  *)
(* started from, the message it showed and, for a prevSlide that follows a *)
(* nextSlide of the same targets at once, the selection before that        *)
(* nextSlide.                                                              *)

NavTypes == {"slide", "subslide", "fragment", Absent}

NavConfigs ==
    [includeSubslides : BOOLEAN, skipCellTypes : {{}},
     showStatusBar : {TRUE}, slideViewSpacerLines : {DefaultSpacerLines}]

\* the extension is activated and the notebook is open in the active
\* editor; a notebook that holds spacer cells is in slide view
InitNav ==
    /\ \E n \in 0 .. MaxNavCells :
           \E ks \in [1 .. n -> NavTypes \cup {"spacer"}] :
               cells = NotebookOf(n, ks)
    /\ disk = NonSpacerCells(cells)
    /\ config \in NavConfigs
    /\ isOpen = TRUE
    /\ activeEditor = TRUE
    /\ selection = IF cells = <<>> THEN NoSelection ELSE 0
    /\ activated = TRUE
    /\ slideViewState = IF SpacerCount(cells) > 0
                        THEN MapSet(MapDelete(<<>>), TRUE)
                        ELSE MapDelete(<<>>)
    /\ slideViewPendingReinsert = {}
    /\ statusBar = NoStatusBar
    /\ message = "none"
    /\ savePhase = "idle"
    /\ inflight = <<>>
    /\ hostRejects = FALSE
    /\ last = Entry("init", cells, TRUE, TRUE, NoBase)
    /\ built = NotBuilt
    /\ read = NotRead
    /\ nav = NoNav
    /\ initial = cells

\* a command has run from the user interface UI and left ui
Navigated(op, targets, ui, origin) ==
    /\ activated
    /\ SetUI([ui EXCEPT !.message =
                 IF ui.message = "none" THEN message ELSE ui.message])
    /\ nav' = [op |-> op, targets |-> targets, from |-> selection,
               doc |-> cells, shown |-> ui.message, origin |-> origin]
    /\ UNCHANGED <<cells, disk, config, isOpen, activeEditor, activated,
                   slideViewState, slideViewPendingReinsert, savePhase,
                   inflight, hostRejects, last, built, read, initial>>

\* the user interface a command starts on: it has shown no message yet
Quiet == [UI EXCEPT !.message = "none"]

\* lines 481-492: nextSlide and nextFragment
NextSlide ==
    \E targets \in {SLIDE_TYPES, FRAGMENT_TYPES} :
        Navigated("nextSlide", targets,
                  nextSlide(Quiet, activeEditor, cells, targets,
                            slideViewState, config),
                  NoOrigin)

\* lines 484-492: prevSlide and prevFragment
PrevSlide ==
    \E targets \in {SLIDE_TYPES, FRAGMENT_TYPES} :
        Navigated("prevSlide", targets,
                  prevSlide(Quiet, activeEditor, cells, targets,
                            slideViewState, config),
                  IF nav.op = "nextSlide" /\ nav.targets = targets
                  THEN [set |-> TRUE, at |-> nav.from] ELSE NoOrigin)

FirstSlide ==
    Navigated("firstSlide", SLIDE_TYPES,
              firstSlide(Quiet, activeEditor, cells, slideViewState, config),
              NoOrigin)

LastSlide ==
    Navigated("lastSlide", SLIDE_TYPES,
              lastSlide(Quiet, activeEditor, cells, slideViewState, config),
              NoOrigin)

\* lines 512-516: the user selects another cell
SelectCell ==
    \E c \in 0 .. Len(cells) - 1 :
        /\ activated
        /\ activeEditor
        /\ c # selection
        /\ SetUI(refreshStatusBarForSelection([UI EXCEPT !.selection = c],
                                              cells, slideViewState, config))
        /\ nav' = [NoNav EXCEPT !.op = "select", !.from = selection,
                                !.doc = cells]
        /\ UNCHANGED <<cells, disk, config, isOpen, activeEditor, activated,
                       slideViewState, slideViewPendingReinsert, savePhase,
                       inflight, hostRejects, last, built, read, initial>>

NextNav ==
    \/ NextSlide
    \/ PrevSlide
    \/ FirstSlide
    \/ LastSlide
    \/ SelectCell

SpecNav == InitNav /\ [][NextNav]_vars

-----------------------------------------------------------------------------
(* Properties of the navigation commands.                                  *)

\* the index the last command built
NavIndex == buildSlideIndex(nav.doc, nav.targets, config)

IndexPositions(index) == {index[k].cellIndex : k \in 1 .. Len(index)}

\* the position the last command started from
NavCurrent == IF nav.from = NoSelection THEN 0 ELSE nav.from

PositionsAfter == {c \in IndexPositions(NavIndex) : c > NavCurrent}

PositionsBefore == {c \in IndexPositions(NavIndex) : c < NavCurrent}

\* the last command jumped to position c and showed no message
JumpedTo(c) == selection = c /\ nav.shown = "none"

\* the last command left the selection alone and showed message m
StayedWith(m) == selection = nav.from /\ nav.shown = m

\* C12 as stated: advance with an active document selects the smallest
\* index position strictly greater than the current position; when there is
\* none it reports the at-end condition and leaves the selection unchanged.
C12_AdvanceOrAtEnd ==
    nav.op = "nextSlide"
        => IF PositionsAfter # {}
           THEN \E c \in PositionsAfter :
                    /\ \A d \in PositionsAfter : c <= d
                    /\ JumpedTo(c)
           ELSE StayedWith("atEnd")

\* C12 as amended: advance with an active document selects the smallest
\* index position strictly greater than the current position; when there is
\* none it leaves the selection unchanged and reports the at-end condition
\* if the index has entries, and that no slide metadata was found if the
\* index is empty.
C12_AdvanceOrAtEndOrNoSlides ==
    nav.op = "nextSlide"
        => IF PositionsAfter # {}
           THEN \E c \in PositionsAfter :
                    /\ \A d \in PositionsAfter : c <= d
                    /\ JumpedTo(c)
           ELSE IF NavIndex = <<>> THEN StayedWith("noSlides")
           ELSE StayedWith("atEnd")

\* an advance with two stops ahead of the current position
C12_Witness ==
    /\ nav.op = "nextSlide"
    /\ Cardinality(PositionsAfter) >= 2
    /\ selection > nav.from
    /\ nav.shown = "none"

\* C13 as stated: retreat with an active document selects the largest index
\* position strictly less than the current position; when there is none it
\* reports the at-start condition and leaves the selection unchanged.
C13_RetreatOrAtStart ==
    nav.op = "prevSlide"
        => IF PositionsBefore # {}
           THEN \E c \in PositionsBefore :
                    /\ \A d \in PositionsBefore : d <= c
                    /\ JumpedTo(c)
           ELSE StayedWith("atStart")

\* C13 as amended: retreat with an active document selects the largest
\* index position strictly less than the current position; when there is
\* none it leaves the selection unchanged and reports the at-start
\* condition if the index has entries, and that no slide metadata was found
\* if the index is empty.
C13_RetreatOrAtStartOrNoSlides ==
    nav.op = "prevSlide"
        => IF PositionsBefore # {}
           THEN \E c \in PositionsBefore :
                    /\ \A d \in PositionsBefore : d <= c
                    /\ JumpedTo(c)
           ELSE IF NavIndex = <<>> THEN StayedWith("noSlides")
           ELSE StayedWith("atStart")

\* a retreat with two stops behind the current position
C13_Witness ==
    /\ nav.op = "prevSlide"
    /\ Cardinality(PositionsBefore) >= 2
    /\ selection < nav.from
    /\ nav.shown = "none"

\* a slide-level prevSlide has just followed a slide-level nextSlide at once
AdvancedThenRetreated ==
    /\ nav.op = "prevSlide"
    /\ nav.targets = SLIDE_TYPES
    /\ nav.origin.set

\* position p is not the position of the last entry of the index
NotLastSlide(index, p) ==
    index = <<>> \/ p # index[Len(index)].cellIndex

\* C14 as stated: at slide granularity, advance followed at once by retreat
\* returns the selection to the original position, for every original
\* position that is not the last slide.
C14_AdvanceRetreatReturns ==
    (AdvancedThenRetreated /\ NotLastSlide(NavIndex, nav.origin.at))
        => selection = nav.origin.at

\* C14 as amended: at slide granularity, advance followed at once by
\* retreat returns the selection to the original position, for every
\* original position that is the position of an entry of the
\* slide-granularity index other than the last entry.
C14_AdvanceRetreatReturnsFromEntry ==
    (/\ AdvancedThenRetreated
     /\ nav.origin.at \in IndexPositions(NavIndex)
     /\ NotLastSlide(NavIndex, nav.origin.at))
        => selection = nav.origin.at

\* the advance moved the selection off an entry and the retreat moved it back
C14_Witness ==
    /\ AdvancedThenRetreated
    /\ nav.origin.at \in IndexPositions(NavIndex)
    /\ NotLastSlide(NavIndex, nav.origin.at)
    /\ nav.from > nav.origin.at
    /\ selection = nav.origin.at

\* the slide-granularity index of the document the last command ran on
NavSlideIndex == buildSlideIndex(nav.doc, SLIDE_TYPES, config)

\* the cell the selection is on is neither a fragment nor a spacer
OnSlideCell ==
    /\ selection \in 0 .. Len(cells) - 1
    /\ ~isSpacerCell(cells[selection + 1])
    /\ getSlideType(cells[selection + 1]) # "fragment"

\* C15: jumpFirst and jumpLast use the slide-granularity index: they select
\* its first, respectively last, entry and so never land on a fragment cell
\* or a spacer cell; when that index is empty they report that no slide
\* metadata was found and leave selection and document unchanged.
C15_JumpsUseSlideIndex ==
    nav.op \in {"firstSlide", "lastSlide"}
        => /\ cells = nav.doc
           /\ IF NavSlideIndex = <<>> THEN StayedWith("noSlides")
              ELSE /\ OnSlideCell
                   /\ JumpedTo(NavSlideIndex[IF nav.op = "firstSlide" THEN 1
                                             ELSE Len(NavSlideIndex)]
                                   .cellIndex)

\* jumpLast passed over a fragment behind the last slide, in a notebook
\* with a spacer cell
C15_Witness ==
    /\ nav.op = "lastSlide"
    /\ nav.shown = "none"
    /\ selection # nav.from
    /\ \E i \in selection + 2 .. Len(cells) :
           getSlideType(cells[i]) = "fragment" /\ ~isSpacerCell(cells[i])
    /\ \E i \in 1 .. Len(cells) : isSpacerCell(cells[i])

\* a navigation command has just jumped
Jumped ==
    /\ nav.op \in {"nextSlide", "prevSlide", "firstSlide", "lastSlide"}
    /\ nav.shown = "none"

\* the entries of an index on slide or subslide cells
SlideEntries(notebook, index) ==
    {k \in 1 .. Len(index) : TypeAt(notebook, index[k]) \in SLIDE_TYPES}

\* slide cells at positions 2 and 5, no slide type on the other cells
ExampleNavDoc ==
    <<UserCell(1, Absent), UserCell(2, Absent), UserCell(3, "slide"),
      UserCell(4, Absent), UserCell(5, Absent), UserCell(6, "slide")>>

\* jumpFirst on the example document from the user interface of the state
ExampleJump ==
    firstSlide(UI, TRUE, ExampleNavDoc, slideViewState, DefaultConfig)

-----------------------------------------------------------------------------
(* Further properties of the spacer lifecycle.                             *)

\* C17: after any sequence of toggle, save-lifecycle, orphan-recovery,
\* close and reopen operations, and the jump to the first slide that a
\* toggle makes, the non-spacer cells of the document, live and as saved,
\* are the initial ones in order, content and metadata: only spacer cells
\* are ever inserted or deleted.
C17_UserCellsUntouched ==
    /\ NonSpacerCells(cells) = NonSpacerCells(initial)
    /\ NonSpacerCells(disk) = NonSpacerCells(initial)

\* spacers were inserted, removed for a save and inserted again
C17_Witness ==
    /\ last.op = "didSave"
    /\ SpacerCount(last.pre) = 0
    /\ SpacerCount(cells) >= 2
    /\ Len(initial) >= 3
    /\ disk = initial

\* the write of a save whose will-save ran in slide view has just happened
WroteInSlideView == last.op = "save" /\ last.base.set

\* the did-save of such a save has just run, nothing else since the write
ReinsertedAfterSave == last.op = "didSave" /\ last.base.set

\* C18: with slide view on, the removal that will-save triggers is applied
\* in full before the save writes the document, and the re-insertion that
\* the matching did-save triggers starts only after that removal has been
\* applied: the save wrote the document without its spacer cells, and the
\* did-save handler started on the document without them.
C18_RemovalBeforeWriteBeforeReinsert ==
    /\ WroteInSlideView
           => /\ SpacerCount(disk) = 0
              /\ disk = NonSpacerCells(last.base.doc)
    /\ ReinsertedAfterSave
           => /\ SpacerCount(last.pre) = 0
              /\ last.pre = NonSpacerCells(last.base.doc)
              /\ disk = last.pre

\* a save of a document with spacer cells, which did-save put back
C18_Witness ==
    /\ ReinsertedAfterSave
    /\ SpacerCount(last.base.doc) >= 2
    /\ SpacerCount(cells) >= 2
    /\ SpacerCount(disk) = 0

\* C19: no two document-mutating operations interleave on a document: a
\* toggle reads spacerActive, applies its insert or remove edit and writes
\* spacerActive with no other toggle, will-save or did-save handler of the
\* document running in between.
\* Stated on the handler that ran last: a will-save or did-save handler
\* and a toggle that completes find no toggle suspended at its await, and
\* a toggle that suspends is the only one suspended.
C19_ToggleIndivisible ==
    /\ last.op \in {"willSave", "didSave"} => inflight = <<>>
    /\ last.op \in {"toggleOn", "toggleOff"} => inflight = <<>>
    /\ last.op \in {"toggleOnEdit", "toggleOffEdit"} => Len(inflight) = 1

-----------------------------------------------------------------------------
(* Further properties of the toggle, the save handlers and the close       *)
(* handler.                                                                *)

\* C21: the On-to-Off toggle deletes every spacer cell, however many there
\* are and wherever they sit: the document its edit leaves is the document
\* before the toggle without its spacer cells, the completed toggle leaves
\* spacerActive false, and a toggle that no other handler run disturbed
\* completes on a document with no spacer cell.
C21_ToggleOffDeletesEverySpacer ==
    /\ (last.op = "toggleOffEdit" /\ last.ok)
           => /\ SpacerCount(cells) = 0
              /\ cells = NonSpacerCells(last.pre)
    /\ last.op = "toggleOff" => ~IsSlideView(slideViewState)
    /\ CleanToggle("toggleOff")
           => /\ SpacerCount(cells) = 0
              /\ cells = NonSpacerCells(last.pre)

\* a completed On-to-Off toggle that found two spacer cells next to each
\* other and a third one elsewhere
C21_Witness ==
    /\ CleanToggle("toggleOff")
    /\ SpacerCount(last.pre) = MaxSpacers
    /\ \E k \in 1 .. Len(last.pre) - 1 :
           isSpacerCell(last.pre[k]) /\ isSpacerCell(last.pre[k + 1])
    /\ SpacerCount(cells) = 0

\* C22: closing a document removes its spacerActive entry and its
\* pending-reinsert mark; a did-save notification that arrives for the
\* document after the close inserts no cells; and when the document is
\* opened again its state is Off.
C22_CloseForgetsDocument ==
    /\ last.op = "close"
           => /\ Uri \notin DOMAIN slideViewState
              /\ Uri \notin slideViewPendingReinsert
    /\ (last.op = "didSave" /\ ~isOpen) => cells = last.pre
    /\ last.op = "open" => ~IsSlideView(slideViewState)

C24_PendingOnlyInSaveWindow ==
    /\ Uri \in slideViewPendingReinsert
           => /\ IsSlideView(slideViewState)
              /\ savePhase \in {"willSave", "written"}
    /\ last.op = "didSave" => Uri \notin slideViewPendingReinsert

\* C25: after an Off-to-On toggle on a document with a non-empty
\* slide-granularity index, the selection is the single cell at the first
\* entry of that index, the index being the one of the document as it is
\* after the spacer insertion.  Stated for a toggle that no other handler
\* run disturbed between its edit and its jump.
C25_ToggleOnSelectsFirstSlide ==
    (CleanToggle("toggleOn") /\ Len(SlideIndexOf(cells)) >= 1)
        => /\ selection = SlideIndexOf(cells)[1].cellIndex
           /\ IsSlideView(slideViewState)

\* a toggle has inserted spacers and moved the selection to a first slide
\* that is not the first cell
C25_Witness ==
    /\ CleanToggle("toggleOn")
    /\ SpacerCount(cells) > SpacerCount(last.pre)
    /\ Len(SlideIndexOf(cells)) >= 2
    /\ selection = SlideIndexOf(cells)[1].cellIndex
    /\ selection > 0

-----------------------------------------------------------------------------
(* Properties of the status display.                                       *)

\* the entries of an index at or before cell c
EntriesAtOrBefore(index, c) ==
    {k \in 1 .. Len(index) : index[k].cellIndex <= c}

\* the status shows the ordinal of entry k of the index over its length
ShowsEntry(index, k) ==
    /\ statusBar.shown
    /\ statusBar.slideNumber = index[k].slideNumber
    /\ statusBar.totalSlides = Len(index)

\* C26: with the status display enabled, after every selection-change
\* notification the status is the one of the new selection: what it shows
\* is the ordinal of the last slide-granularity entry at or before the
\* selected cell over the number of slides, and it shows that whenever there
\* is such an entry.
C26_StatusFollowsSelection ==
    (nav.op = "select" /\ config.showStatusBar)
        => LET index == SlideIndexOf(cells)
               before == EntriesAtOrBefore(index, selection)
           IN  /\ before # {} => ShowsEntry(index, Highest(before))
               /\ statusBar.shown => before # {}

-----------------------------------------------------------------------------
(* Invariants of the spacer lifecycle.                                     *)

\* no toggle is suspended at its await and no save is under way
Settled == activated /\ inflight = <<>> /\ savePhase = "idle"

\* C27: a document holds spacer cells only if its spacerActive is true: no
\* sequence of toggle, will-save, did-save and close events, a toggle
\* between will-save and did-save and a save that never reports did-save
\* included, leaves spacer cells in a document whose state is Off.  Stated
\* for an open document in the states in which no toggle is suspended and
\* no save is under way.
C27_SpacersOnlyInSlideView ==
    (Settled /\ isOpen /\ SpacerCount(cells) > 0)
        => IsSlideView(slideViewState)

\* the number of spacer cells directly above cell c of the notebook
RECURSIVE SpacersAbove(_, _)
SpacersAbove(notebook, c) ==
    IF c >= 1 /\ isSpacerCell(notebook[c])
    THEN 1 + SpacersAbove(notebook, c - 1)
    ELSE 0

\* C28: each slide boundary is preceded by at most one inserted gap: no
\* sequence of toggles and saves, a did-save re-insertion after the user
\* toggled off and on again during the save window included, inserts
\* spacers in front of a boundary that already has them.
C28_OneSpacerPerBoundary ==
    \A k \in 1 .. Len(SlideIndexOf(cells)) :
        SpacersAbove(cells, SlideIndexOf(cells)[k].cellIndex) <= 1

-----------------------------------------------------------------------------
(* The index of a notebook with spacers against the index of the user's    *)
(* cells alone.                                                            *)

\* the cells of the user, in order: the notebook without the cells that
\* createSpacerCellData made
UserCells(notebook) == SelectSeq(notebook, LAMBDA c : c.content[1] = "src")

\* the number of cells above position p that are not cells of the user
InsertedAbove(notebook, p) == p - Len(UserCells(SubSeq(notebook, 1, p)))

\* index with lists the cells that index without lists, with the same
\* ordinals in the same order, each position moved down by the number of
\* spacer cells above it
SameUpToSpacers(notebook, with, without) ==
    /\ Len(with) = Len(without)
    /\ \A k \in 1 .. Len(with) :
           LET p == with[k].cellIndex
               q == without[k].cellIndex
           IN  /\ p \in 0 .. Len(notebook) - 1
               /\ q \in 0 .. Len(UserCells(notebook)) - 1
               /\ notebook[p + 1] = UserCells(notebook)[q + 1]
               /\ with[k].slideNumber = without[k].slideNumber
               /\ p = q + InsertedAbove(notebook, p)

\* C29: spacer view does not change navigation: for every document, target
\* set and configuration, the index built on the document with spacers
\* lists the same non-spacer cells with the same ordinals, in the same
\* order, as the index built on the spacer-free document; only the
\* positions shift by the number of spacer cells above each entry.
C29_SpacersInvisibleToIndex ==
    built.done
        => /\ SameUpToSpacers(cells, built.slide,
                  buildSlideIndex(UserCells(cells), SLIDE_TYPES, config))
           /\ SameUpToSpacers(cells, built.fragment,
                  buildSlideIndex(UserCells(cells), FRAGMENT_TYPES, config))

\* a notebook with spacer cells above its second slide entry and none above
\* its first, and a fragment entry further down
C29_Witness ==
    /\ built.done
    /\ Len(built.slide) >= 2
    /\ Len(built.fragment) > Len(built.slide)
    /\ InsertedAbove(cells, built.slide[1].cellIndex) = 0
    /\ InsertedAbove(cells, built.slide[2].cellIndex) >= 1
    /\ SpacerCount(cells) >= 1

\* C30: every status the extension displays satisfies
\* 1 <= ordinal <= total, for every document, configuration and navigation
\* command, fragment-granularity navigation on a document whose fragments
\* precede any slide boundary included.
C30_OrdinalWithinTotal ==
    statusBar.shown
        => /\ 1 <= statusBar.slideNumber
           /\ statusBar.slideNumber <= statusBar.totalSlides

-----------------------------------------------------------------------------
(* The ordinals of the two indexes of one notebook.                        *)

\* the pairs (j, k) with entry j of the slide-granularity index and entry k
\* of the fragment-granularity index on the same cell
SharedEntries ==
    {jk \in (1 .. Len(built.slide)) \X (1 .. Len(built.fragment)) :
        built.slide[jk[1]].cellIndex = built.fragment[jk[2]].cellIndex}

\* the subslide cells of the notebook at or above position p that the
\* configuration does not skip
SubslidesUpTo(p) ==
    IF "subslide" \in config.skipCellTypes THEN 0
    ELSE Cardinality({i \in 1 .. p + 1 :
             /\ ~isSpacerCell(cells[i])
             /\ getSlideType(cells[i]) = "subslide"})

\* C31: for every document and configuration, a slide or subslide cell that
\* appears in both the slide-granularity index and the
\* fragment-granularity index has the same ordinal in both, also when
\* includeSubslides is false.
C31_SameOrdinalInBothIndexes ==
    built.done
        => \A jk \in SharedEntries :
               built.slide[jk[1]].slideNumber
                   = built.fragment[jk[2]].slideNumber

\* C31 as the code has it: with includeSubslides true the two ordinals are
\* equal; with includeSubslides false the ordinal in the
\* fragment-granularity index is the ordinal in the slide-granularity index
\* plus the number of subslide cells at or above the cell that the
\* configuration does not skip.
C31_OrdinalsDifferBySubslides ==
    built.done
        => \A jk \in SharedEntries :
               built.fragment[jk[2]].slideNumber
                   = built.slide[jk[1]].slideNumber
                     + (IF config.includeSubslides THEN 0
                        ELSE SubslidesUpTo(built.slide[jk[1]].cellIndex))

\* subslides are excluded from slide navigation and a slide cell below a
\* subslide cell has a higher ordinal in the fragment-granularity index
C31_Witness ==
    /\ built.done
    /\ ~config.includeSubslides
    /\ \E jk \in SharedEntries :
           /\ SubslidesUpTo(built.slide[jk[1]].cellIndex) >= 1
           /\ built.fragment[jk[2]].slideNumber
                  > built.slide[jk[1]].slideNumber
           /\ built.slide[jk[1]].slideNumber >= 2

-----------------------------------------------------------------------------
(* Repeated navigation on an unchanging notebook.                          *)

\* the advance command repeated from the user interface ui for as long as
\* it jumps, and for at most one call per cell and one more: the number of
\* jumps n and the user interface the last call leaves
RECURSIVE AdvanceRun(_, _, _)
AdvanceRun(ui, targets, n) ==
    LET u == nextSlide([ui EXCEPT !.message = "none"], activeEditor, cells,
                       targets, slideViewState, config)
    IN  IF u.message # "none" \/ n > Len(cells)
        THEN [steps |-> n, end |-> u, start |-> ui]
        ELSE AdvanceRun(u, targets, n + 1)

\* the same for the retreat command
RECURSIVE RetreatRun(_, _, _)
RetreatRun(ui, targets, n) ==
    LET u == prevSlide([ui EXCEPT !.message = "none"], activeEditor, cells,
                       targets, slideViewState, config)
    IN  IF u.message # "none" \/ n > Len(cells)
        THEN [steps |-> n, end |-> u, start |-> ui]
        ELSE RetreatRun(u, targets, n + 1)

\* the run took at most as many jumps as the index has entries and ended
\* in a call that left the selection alone and showed the message
EndsWithin(run, index, msg) ==
    /\ run.steps <= Len(index)
    /\ run.end.selection = run.start.selection
    /\ run.end.message = IF Len(index) = 0 THEN "noSlides" ELSE msg

\* C32: on an unchanging document every successful advance strictly
\* increases the selected position and every successful retreat strictly
\* decreases it, so that advance repeated from any position ends, after at
\* most as many jumps as the index has entries, in a call that finds no
\* later entry and leaves the selection alone, and retreat repeated ends
\* likewise in a call that finds no earlier entry.
C32_RepeatedNavigationEnds ==
    /\ (nav.op = "nextSlide" /\ nav.shown = "none") => selection > NavCurrent
    /\ (nav.op = "prevSlide" /\ nav.shown = "none") => selection < NavCurrent
    /\ \A targets \in {SLIDE_TYPES, FRAGMENT_TYPES} :
           LET index == buildSlideIndex(cells, targets, config)
           IN  /\ EndsWithin(AdvanceRun(UI, targets, 0), index, "atEnd")
               /\ EndsWithin(RetreatRun(UI, targets, 0), index, "atStart")

\* a successful advance has left the selection where both a further advance
\* and a retreat jump, and the run of advances from there ends at the end
\* of the index
C32_Witness ==
    /\ nav.op = "nextSlide"
    /\ nav.shown = "none"
    /\ selection > NavCurrent
    /\ AdvanceRun(UI, FRAGMENT_TYPES, 0).steps >= 1
    /\ RetreatRun(UI, FRAGMENT_TYPES, 0).steps >= 1
    /\ AdvanceRun(UI, FRAGMENT_TYPES, 0).end.message = "atEnd"

====
